---- MODULE Spec2Model ----
(***************************************************************************)
(* Model of the validation, replacement and publish engine of              *)
(* vengatesh_iptv_v23.py: bulk_parse_contents_optimized, the batches of    *)
(* validate_stream_batch / validate_one, and steps 5-8 of main().          *)
(* Program constants are scaled down (their source lines are recorded);    *)
(* the list positions, dictionary insertion orders and the FIFO order of   *)
(* asyncio tasks and semaphore waiters are kept.                           *)
(***************************************************************************)
EXTENDS Integers, Sequences, FiniteSets, TLC

\* ---------------------------------------------------------------- bounds
NumUrls == 3
MaxStreams == 3
MaxRuns == 2
MaxLines == 4

\* ------------------------------------------- program constants (scaled)
\* MAX_CONCURRENT_HTTP is 100 and MAX_REPLACEMENT_CANDIDATES is 3 in the script;
\* the batches of step 6 are of 100 urls and those of the replacement step of 50.
\* The values here are small enough for a cap to cut an identity of NumUrls
\* urls, for a batch to be longer than the semaphore is wide, and for both steps
\* to run several batches.
MAX_CONCURRENT_HTTP == 2
MAX_REPLACEMENT_CANDIDATES == 2
VALIDATE_BATCH == 2
REPLACEMENT_BATCH == 3
\* CHUNK_SIZE is 500 documents in the script
CHUNK_SIZE == 1

\* ------------------------------------------------------------ the inputs
Urls == 1..NumUrls
NoUrl == 0

\* #EXTINF lines: "#EXTINF:-1,NewsX", "#EXTINF:-1,NEWSX", "#EXTINF:-1,SportY"
Infos == {"i_NewsX", "i_NEWSX", "i_SportY"}

\* status of a response; NoResponse stands for an exception or a timeout
QualifyingStatus == {200, 206, 302, 304}
Statuses == QualifyingStatus \cup {404, 405}
NoResponse == 0
Responses == Statuses \cup {NoResponse}

Min(a, b) == IF a < b THEN a ELSE b

\* ----------------------------------------------------- pure functions
extract_channel_name(info) ==
    CASE info = "i_NewsX" -> "NewsX"
      [] info = "i_NEWSX" -> "NEWSX"
      [] info = "i_SportY" -> "SportY"
      [] OTHER -> "Unknown"

Lower(name) ==
    CASE name = "NewsX" -> "newsx"
      [] name = "NEWSX" -> "newsx"
      [] name = "SportY" -> "sporty"
      [] OTHER -> "unknown"

IdentityOf(info) == Lower(extract_channel_name(info))

\* a dict is a sequence of <<key, value>> pairs in insertion order
Keys(d) == {d[i][1] : i \in 1..Len(d)}
Lookup(d, k) == d[CHOOSE i \in 1..Len(d) : d[i][1] = k][2]

EmptyIndex == [n \in {} |-> <<>>]
IndexGet(idx, name) == IF name \in DOMAIN idx THEN idx[name] ELSE <<>>

\* candidate[url] = info also for a url already seen: the last one wins
RECURSIVE ParseFromLastWins(_, _, _)
ParseFromLastWins(s, cand, idx) ==
    IF s = <<>> THEN [candidate |-> cand, replacement_index |-> idx]
    ELSE LET url == Head(s)[1]
             info == Head(s)[2]
         IN  IF url \in Keys(cand)
             THEN ParseFromLastWins(Tail(s),
                      [i \in 1..Len(cand) |->
                          IF cand[i][1] = url THEN <<url, info>> ELSE cand[i]], idx)
             ELSE LET name == IdentityOf(info)
                      old == IndexGet(idx, name)
                  IN  ParseFromLastWins(Tail(s), Append(cand, <<url, info>>),
                                [n \in DOMAIN idx \cup {name} |->
                                    IF n = name THEN Append(old, <<url, info>>)
                                    ELSE idx[n]])

\* the index appended to outside the test: every occurrence of a url is indexed
RECURSIVE ParseFromIndexAll(_, _, _)
ParseFromIndexAll(s, cand, idx) ==
    IF s = <<>> THEN [candidate |-> cand, replacement_index |-> idx]
    ELSE LET url == Head(s)[1]
             info == Head(s)[2]
             name == IdentityOf(info)
             old == IndexGet(idx, name)
         IN  ParseFromIndexAll(Tail(s),
                 IF url \in Keys(cand) THEN cand ELSE Append(cand, <<url, info>>),
                 [n \in DOMAIN idx \cup {name} |->
                     IF n = name THEN Append(old, <<url, info>>) ELSE idx[n]])

RECURSIVE ParseFrom(_, _, _)
ParseFrom(s, cand, idx) ==
    IF s = <<>> THEN [candidate |-> cand, replacement_index |-> idx]
    ELSE LET url == Head(s)[1]
             info == Head(s)[2]
         IN  IF url \in Keys(cand) THEN ParseFrom(Tail(s), cand, idx)
             ELSE LET name == IdentityOf(info)
                      old == IndexGet(idx, name)
                  IN  ParseFrom(Tail(s), Append(cand, <<url, info>>),
                                [n \in DOMAIN idx \cup {name} |->
                                    IF n = name THEN Append(old, <<url, info>>)
                                    ELSE idx[n]])

bulk_parse_contents_optimized(results) == ParseFrom(results, <<>>, EmptyIndex)

\* ------------------------------------------------- the lines of a document
\* a line is known by what the parser asks of it: kind "extinf" starts with
\* '#EXTINF:', kind "stream" starts with http, rtmp or rtsp, kind "m3u" does too
\* and contains '.m3u', kind "other" is any other text ("#EXTM3U", a blank line)
ExtinfLine(text) == [kind |-> "extinf", text |-> text, url |-> NoUrl]
StreamLine(u) == [kind |-> "stream", text |-> "", url |-> u]
M3uLine == [kind |-> "m3u", text |-> "", url |-> NoUrl]
OtherLine == [kind |-> "other", text |-> "", url |-> NoUrl]

\* the second #EXTINF line ends in blanks, which strip() removes
DocLines ==
    {ExtinfLine("i_NewsX"), ExtinfLine("i_SportY  "), StreamLine(1), StreamLine(2),
     M3uLine, OtherLine}

Strip(text) == IF text = "i_SportY  " THEN "i_SportY" ELSE text
StartsWithExtinf(l) == l.kind = "extinf"
StartsWithScheme(l) == l.kind \in {"stream", "m3u"}
ContainsM3u(l) == l.kind = "m3u"

\* a parser that takes any line followed by a stream url as a record
RECURSIVE ParseLinesAnyHeader(_, _)
ParseLinesAnyHeader(lines, i) ==
    IF i > Len(lines) THEN <<>>
    ELSE IF i + 1 <= Len(lines)
         THEN (IF StartsWithScheme(lines[i + 1]) /\ ~ContainsM3u(lines[i + 1])
               THEN <<<<lines[i + 1].url, Strip(lines[i].text)>>>> ELSE <<>>)
              \o ParseLinesAnyHeader(lines, i + 2)
         ELSE ParseLinesAnyHeader(lines, i + 1)

\* the while loop of parse_m3u_chunk over the lines of one content, from line i
RECURSIVE ParseLines(_, _)
ParseLines(lines, i) ==
    IF i > Len(lines) THEN <<>>
    ELSE IF StartsWithExtinf(lines[i]) /\ i + 1 <= Len(lines)
         THEN (IF StartsWithScheme(lines[i + 1]) /\ ~ContainsM3u(lines[i + 1])
               THEN <<<<lines[i + 1].url, Strip(lines[i].text)>>>> ELSE <<>>)
              \o ParseLines(lines, i + 2)
         ELSE ParseLines(lines, i + 1)

RECURSIVE parse_m3u_chunk(_)
parse_m3u_chunk(chunk) ==
    IF chunk = <<>> THEN <<>>
    ELSE ParseLines(Head(chunk), 1) \o parse_m3u_chunk(Tail(chunk))

\* contents[i:i + CHUNK_SIZE] for i in range(0, len(contents), CHUNK_SIZE)
RECURSIVE Chunks(_)
Chunks(contents) ==
    IF contents = <<>> THEN <<>>
    ELSE LET n == Min(CHUNK_SIZE, Len(contents))
         IN  <<SubSeq(contents, 1, n)>> \o Chunks(SubSeq(contents, n + 1, Len(contents)))

\* executor.map(parse_m3u_chunk, chunks), the lists of the chunks one after another
RECURSIVE ParseResults(_)
ParseResults(chunks) ==
    IF chunks = <<>> THEN <<>>
    ELSE parse_m3u_chunk(Head(chunks)) \o ParseResults(Tail(chunks))

\* ------------------------------------------------------------- the state
VARIABLES
    limit,              \* the value MAX_CONCURRENT_HTTP is configured to
    GITHUB_TOKEN,       \* whether GH_TOKEN is set: the gist is the sink, else local files
    previous,           \* the snapshot document as it was when the run started
    playlist,           \* playlist.m3u, a list of lines
    docs,               \* all_contents: the documents, each a list of lines
    streams,            \* the (url, info) pairs the parsers return, in source order
    run,                \* number of the current run
    pc,                 \* position of main(): "parse", "validate", "heal", "done"
    candidate_streams,  \* dict url -> info
    replacement_index,  \* identity -> list of (url, info)
    validated,          \* dict url -> info
    global_validated,   \* set of urls
    broken,             \* list of (url, info)
    replacement_tasks,  \* list of [url, for]: a candidate url and, as history, the
                        \* broken url whose candidates list it was taken from
    pending,            \* the part of url_list / replacement_tasks in the batches
                        \* not yet started
    tasks,              \* validate_one tasks of the batch being awaited
    sem,                \* value of the batch's semaphore
    resolved,           \* history: the candidates whose validation task returned
    passed,             \* history: the urls of which a probe of this run returned True
    failed,             \* history: the urls of which a probe of this run returned False
    healed,             \* history: for each broken url, the urls added on its behalf
    published           \* the persisted snapshot: [entries, total]

vars == <<limit, GITHUB_TOKEN, previous, playlist, docs, streams, run, pc, candidate_streams, replacement_index, validated,
          global_validated, broken, replacement_tasks, pending, tasks, sem,
          resolved, passed, failed, healed, published>>

\* canonical naming of the urls: a new url is the smallest one not yet used
RECURSIVE Canonical(_, _)
Canonical(s, used) ==
    \/ s = <<>>
    \/ /\ Head(s)[1] <= used + 1
       /\ Canonical(Tail(s), IF Head(s)[1] = used + 1 THEN used + 1 ELSE used)

StreamLists ==
    UNION {[1..n -> Urls \X Infos] : n \in 0..MaxStreams}

NoSnapshot == [entries |-> <<>>, total |-> 0]
NoPlaylist == <<>>

\* a file opened with mode "w" and not written yet holds no bytes: no playlist
\* line, and no snapshot to read (no entries, no global_total)
EmptyPlaylist == <<>>
EmptyBackup == [entries |-> <<>>, total |-> -1]

\* m3u_lines: the #EXTM3U header, then the info line and the url line of each entry
RECURSIVE EntryLines(_)
EntryLines(v) ==
    IF v = <<>> THEN <<>>
    ELSE <<ExtinfLine(Head(v)[2]), StreamLine(Head(v)[1])>> \o EntryLines(Tail(v))
\* a playlist of the header and the url lines only
m3u_contentNoInfo(v) == <<OtherLine>> \o [i \in 1..Len(v) |-> StreamLine(v[i][1])]

m3u_content(v) == <<OtherLine>> \o EntryLines(v)

\* json_backup: persistence.validated and global_total
json_backup(v) == [entries |-> v, total |-> Len(v)]

\* the snapshots a run can find in its sink: none, or that of an earlier run
PreviousSnapshots == {NoSnapshot, json_backup(<<<<1, "i_NewsX">>>>)}

\* the statuses of the gist API as the script tells them apart, and no response
GistResponses == {200, 201, 422, NoResponse}

Init ==
    /\ limit = MAX_CONCURRENT_HTTP
    /\ GITHUB_TOKEN = FALSE
    /\ previous = NoSnapshot
    /\ playlist = NoPlaylist
    /\ docs = <<>>
    /\ streams \in {s \in StreamLists : Canonical(s, 0)}
    /\ run = 1
    /\ pc = "parse"
    /\ candidate_streams = <<>>
    /\ replacement_index = EmptyIndex
    /\ validated = <<>>
    /\ global_validated = {}
    /\ broken = <<>>
    /\ replacement_tasks = <<>>
    /\ pending = <<>>
    /\ tasks = <<>>
    /\ sem = 0
    /\ resolved = {}
    /\ passed = {}
    /\ failed = {}
    /\ healed = EmptyIndex
    /\ published = NoSnapshot

\* two documents that hold MaxLines lines at most between them
LineLists == UNION {[1..n -> DocLines] : n \in 0..MaxLines}
DocPairs ==
    UNION {{<<SubSeq(l, 1, c), SubSeq(l, c + 1, Len(l))>> : c \in 0..Len(l)} :
              l \in LineLists}

InitDocs ==
    /\ limit = MAX_CONCURRENT_HTTP
    /\ GITHUB_TOKEN = FALSE
    /\ previous = NoSnapshot
    /\ playlist = NoPlaylist
    /\ docs \in DocPairs
    /\ streams = <<>>
    /\ run = 1
    /\ pc = "docs"
    /\ candidate_streams = <<>>
    /\ replacement_index = EmptyIndex
    /\ validated = <<>>
    /\ global_validated = {}
    /\ broken = <<>>
    /\ replacement_tasks = <<>>
    /\ pending = <<>>
    /\ tasks = <<>>
    /\ sem = 0
    /\ resolved = {}
    /\ passed = {}
    /\ failed = {}
    /\ healed = EmptyIndex
    /\ published = NoSnapshot

\* ------------------------------------------------------------ main()
\* the parsing half of bulk_parse_contents_optimized
ParseDocs ==
    /\ pc = "docs"
    /\ streams' = ParseResults(Chunks(docs))
    /\ pc' = "parse"
    /\ UNCHANGED <<limit, GITHUB_TOKEN, previous, playlist, docs, run, candidate_streams, replacement_index, validated,
                   global_validated, broken, replacement_tasks, pending, tasks, sem,
                   resolved, passed, failed, healed, published>>

\* Step 5 and the head of step 6
Parse ==
    /\ pc = "parse"
    /\ LET r == bulk_parse_contents_optimized(streams)
       IN  /\ candidate_streams' = r.candidate
           /\ replacement_index' = r.replacement_index
           /\ pending' = [i \in 1..Len(r.candidate) |->
                             [url |-> r.candidate[i][1], for |-> NoUrl]]
    /\ validated' = <<>>
    /\ global_validated' = {}
    /\ broken' = <<>>
    /\ replacement_tasks' = <<>>
    /\ tasks' = <<>>
    /\ resolved' = {}
    /\ passed' = {}
    /\ failed' = {}
    /\ healed' = EmptyIndex
    /\ pc' = "validate"
    /\ UNCHANGED <<limit, GITHUB_TOKEN, previous, playlist, docs, streams, run, sem, published>>

BatchSize == IF pc = "validate" THEN VALIDATE_BATCH ELSE REPLACEMENT_BATCH

\* validate_stream_batch: the semaphore and the tasks of one batch
StartBatch ==
    /\ pc \in {"validate", "heal"}
    /\ tasks = <<>>
    /\ pending # <<>>
    /\ LET n == Min(BatchSize, Len(pending))
       IN  /\ tasks' = [i \in 1..n |->
                           [url |-> pending[i].url, for |-> pending[i].for,
                            st |-> "wait", ok |-> FALSE, raised |-> 0]]
           /\ pending' = SubSeq(pending, n + 1, Len(pending))
    /\ sem' = limit
    /\ UNCHANGED <<limit, GITHUB_TOKEN, previous, playlist, docs, streams, run, pc, candidate_streams, replacement_index,
                   validated, global_validated, broken, replacement_tasks,
                   resolved, passed, failed, healed, published>>

\* a semaphore that admits a task whatever its value
CanAcquireUnbounded(i) ==
    \A j \in 1..(i - 1) : tasks[j].st # "wait"

CanAcquire(i) ==
    /\ sem > 0
    /\ \A j \in 1..(i - 1) : tasks[j].st # "wait"

\* validate_one: async with sem, then session.head
Acquire(i) ==
    /\ tasks[i].st = "wait"
    /\ CanAcquire(i)
    /\ sem' = sem - 1
    /\ tasks' = [tasks EXCEPT ![i].st = "head"]
    /\ UNCHANGED <<limit, GITHUB_TOKEN, previous, playlist, docs, streams, run, pc, candidate_streams, replacement_index,
                   validated, global_validated, broken, replacement_tasks, pending,
                   resolved, passed, failed, healed, published>>

\* raised counts the attempts of the task that ended in an exception (history)
AfterHead(t, resp) ==
    IF resp = NoResponse THEN [t EXCEPT !.st = "get", !.raised = 1]
    ELSE [t EXCEPT !.st = "done", !.ok = (resp \in QualifyingStatus)]

\* a GET that raised is tried once more
AfterGetRetry(t, resp) ==
    IF resp = NoResponse
    THEN (IF t.raised < 2 THEN [t EXCEPT !.st = "get", !.raised = 2]
          ELSE [t EXCEPT !.st = "done", !.ok = FALSE])
    ELSE [t EXCEPT !.st = "done", !.ok = (resp \in QualifyingStatus)]

AfterGet(t, resp) ==
    IF resp = NoResponse THEN [t EXCEPT !.st = "done", !.ok = FALSE, !.raised = 2]
    ELSE [t EXCEPT !.st = "done", !.ok = (resp \in QualifyingStatus)]

\* a slot that is not given back when its probe ends
ReleasedNever(before, after) == 0

Released(before, after) == IF before.st # "done" /\ after.st = "done" THEN 1 ELSE 0

Resolved(ts) ==
    IF pc = "validate"
    THEN resolved \cup {ts[k].url : k \in {j \in 1..Len(ts) : ts[j].st = "done"}}
    ELSE resolved

Passed(t) == IF t.st = "done" /\ t.ok THEN passed \cup {t.url} ELSE passed
Failed(t) == IF t.st = "done" /\ ~t.ok THEN failed \cup {t.url} ELSE failed

HeadResponse(i, resp) ==
    /\ tasks[i].st = "head"
    /\ tasks' = [tasks EXCEPT ![i] = AfterHead(tasks[i], resp)]
    /\ sem' = sem + Released(tasks[i], tasks'[i])
    /\ resolved' = Resolved(tasks')
    /\ passed' = Passed(tasks'[i])
    /\ failed' = Failed(tasks'[i])
    /\ UNCHANGED <<limit, GITHUB_TOKEN, previous, playlist, docs, streams, run, pc, candidate_streams, replacement_index,
                   validated, global_validated, broken, replacement_tasks, pending,
                   healed, published>>

GetResponse(i, resp) ==
    /\ tasks[i].st = "get"
    /\ tasks' = [tasks EXCEPT ![i] = AfterGet(tasks[i], resp)]
    /\ sem' = sem + Released(tasks[i], tasks'[i])
    /\ resolved' = Resolved(tasks')
    /\ passed' = Passed(tasks'[i])
    /\ failed' = Failed(tasks'[i])
    /\ UNCHANGED <<limit, GITHUB_TOKEN, previous, playlist, docs, streams, run, pc, candidate_streams, replacement_index,
                   validated, global_validated, broken, replacement_tasks, pending,
                   healed, published>>

\* the results after a task whose two attempts raised are lost
RECURSIVE BatchValidatedUntilRaise(_, _)
BatchValidatedUntilRaise(ts, acc) ==
    IF ts = <<>> \/ Head(ts).raised = 2 THEN acc
    ELSE BatchValidatedUntilRaise(Tail(ts),
                        IF Head(ts).ok /\ \A k \in 1..Len(acc) : acc[k] # Head(ts).url
                        THEN Append(acc, Head(ts).url) ELSE acc)

\* every url of the batch is taken as valid, whatever its task returned
RECURSIVE BatchValidatedAll(_, _)
BatchValidatedAll(ts, acc) ==
    IF ts = <<>> THEN acc
    ELSE BatchValidatedAll(Tail(ts),
                        IF \A k \in 1..Len(acc) : acc[k] # Head(ts).url
                        THEN Append(acc, Head(ts).url) ELSE acc)

\* only the first task of the batch that returned True is kept
RECURSIVE BatchValidatedFirst(_, _)
BatchValidatedFirst(ts, acc) ==
    IF ts = <<>> THEN acc
    ELSE IF Head(ts).ok THEN <<Head(ts).url>>
    ELSE BatchValidatedFirst(Tail(ts), acc)

\* the dict validate_stream_batch returns: the urls of the tasks that returned
\* True, in task order, each once
RECURSIVE BatchValidated(_, _)
BatchValidated(ts, acc) ==
    IF ts = <<>> THEN acc
    ELSE BatchValidated(Tail(ts),
                        IF Head(ts).ok /\ \A k \in 1..Len(acc) : acc[k] # Head(ts).url
                        THEN Append(acc, Head(ts).url) ELSE acc)

\* every url of batch_validated is appended, already validated or not
RECURSIVE MergeAlways(_, _, _)
MergeAlways(urls, val, phase) ==
    IF urls = <<>> THEN val
    ELSE MergeAlways(Tail(urls),
                     Append(val, <<Head(urls), Lookup(candidate_streams, Head(urls))>>),
                     phase)

\* validated is replaced by the urls of the batch: those of earlier batches are lost
RECURSIVE MergeLast(_, _, _)
MergeLast(urls, val, phase) ==
    IF urls = <<>> THEN <<>>
    ELSE <<<<Head(urls), Lookup(candidate_streams, Head(urls))>>>>
         \o MergeLast(Tail(urls), val, phase)

\* the loop over batch_validated of step 6 and of the replacement step
RECURSIVE Merge(_, _, _)
Merge(urls, val, phase) ==
    IF urls = <<>> THEN val
    ELSE LET u == Head(urls)
             add == IF phase = "validate" THEN u \notin Keys(val)
                    ELSE u \in Keys(candidate_streams) /\ u \notin Keys(val)
         IN  Merge(Tail(urls),
                   IF add THEN Append(val, <<u, Lookup(candidate_streams, u)>>) ELSE val,
                   phase)

HealedBy(ts, old, b) ==
    (IF b \in DOMAIN healed THEN healed[b] ELSE {}) \cup
        {ts[i].url : i \in {k \in 1..Len(ts) :
                               ts[k].for = b /\ ts[k].ok /\ ts[k].url \notin old}}

BatchDone ==
    /\ pc \in {"validate", "heal"}
    /\ tasks # <<>>
    /\ \A i \in 1..Len(tasks) : tasks[i].st = "done"
    /\ validated' = Merge(BatchValidated(tasks, <<>>), validated, pc)
    /\ global_validated' = Keys(validated')
    /\ healed' = IF pc = "validate" THEN healed
                 ELSE [b \in DOMAIN healed \cup {tasks[i].for : i \in 1..Len(tasks)} |->
                          HealedBy(tasks, global_validated, b)]
    /\ tasks' = <<>>
    /\ UNCHANGED <<limit, GITHUB_TOKEN, previous, playlist, docs, streams, run, pc, candidate_streams, replacement_index,
                   broken, replacement_tasks, pending, sem, resolved, passed, failed, published>>

\* candidates[:MAX_REPLACEMENT_CANDIDATES]
FirstCandidates(name) ==
    LET c == IndexGet(replacement_index, name)
    IN  SubSeq(c, 1, Min(MAX_REPLACEMENT_CANDIDATES, Len(c)))

RECURSIVE Filter(_, _, _)
Filter(c, b, val) ==
    IF c = <<>> THEN <<>>
    ELSE (IF Head(c)[1] \notin val THEN <<[url |-> Head(c)[1], for |-> b]>> ELSE <<>>)
         \o Filter(Tail(c), b, val)

RECURSIVE ReplacementTasks(_, _)
ReplacementTasks(brk, val) ==
    IF brk = <<>> THEN <<>>
    ELSE Filter(FirstCandidates(IdentityOf(Head(brk)[2])), Head(brk)[1], val)
         \o ReplacementTasks(Tail(brk), val)

\* every candidate is taken as broken
BrokenOfAll(cand, val) == cand

RECURSIVE BrokenOf(_, _)
BrokenOf(cand, val) ==
    IF cand = <<>> THEN <<>>
    ELSE (IF Head(cand)[1] \notin val THEN <<Head(cand)>> ELSE <<>>)
         \o BrokenOf(Tail(cand), val)

\* the replacement step entered while batches of candidates are still to be validated
IdentifyBrokenEarly ==
    /\ pc = "validate"
    /\ tasks = <<>>
    /\ broken' = BrokenOf(candidate_streams, Keys(validated))
    /\ replacement_tasks' = ReplacementTasks(broken', global_validated)
    /\ pending' = replacement_tasks'
    /\ pc' = "heal"
    /\ UNCHANGED <<limit, GITHUB_TOKEN, previous, playlist, docs, streams, run, candidate_streams, replacement_index, validated,
                   global_validated, tasks, sem, resolved, passed, failed, healed, published>>

\* the broken urls are taken out of the index before the replacement step
IdentifyBrokenPruning ==
    /\ pc = "validate"
    /\ tasks = <<>>
    /\ pending = <<>>
    /\ broken' = BrokenOf(candidate_streams, Keys(validated))
    /\ replacement_index' =
           [n \in DOMAIN replacement_index |->
               SelectSeq(replacement_index[n], LAMBDA rec : rec[1] \in Keys(validated))]
    /\ replacement_tasks' = ReplacementTasks(broken', global_validated)
    /\ pending' = replacement_tasks'
    /\ pc' = "heal"
    /\ UNCHANGED <<limit, GITHUB_TOKEN, previous, playlist, docs, streams, run,
                   candidate_streams, validated, global_validated, tasks, sem, resolved,
                   passed, failed, healed, published>>

\* "Identify broken streams" and the list of replacement tasks
IdentifyBroken ==
    /\ pc = "validate"
    /\ tasks = <<>>
    /\ pending = <<>>
    /\ broken' = BrokenOf(candidate_streams, Keys(validated))
    /\ replacement_tasks' = ReplacementTasks(broken', global_validated)
    /\ pending' = replacement_tasks'
    /\ pc' = "heal"
    /\ UNCHANGED <<limit, GITHUB_TOKEN, previous, playlist, docs, streams, run, candidate_streams, replacement_index, validated,
                   global_validated, tasks, sem, resolved, passed, failed, healed, published>>

\* Steps 7 and 8: the snapshot built from validated replaces the persisted one
Publish ==
    /\ pc = "heal"
    /\ tasks = <<>>
    /\ pending = <<>>
    /\ published' = json_backup(validated)
    /\ playlist' = m3u_content(validated)
    /\ pc' = "done"
    /\ UNCHANGED <<limit, GITHUB_TOKEN, previous, docs, streams, run, candidate_streams, replacement_index, validated,
                   global_validated, broken, replacement_tasks, pending, tasks, sem,
                   resolved, passed, failed, healed>>

\* the next invocation of the script
StartRun ==
    /\ pc = "done"
    /\ run < MaxRuns
    /\ run' = run + 1
    /\ pc' = "parse"
    /\ previous' = published
    /\ UNCHANGED <<limit, GITHUB_TOKEN, playlist, docs, streams, candidate_streams, replacement_index, validated,
                   global_validated, broken, replacement_tasks, pending, tasks, sem,
                   resolved, passed, failed, healed, published>>

\* one run of the script
NextInRun ==
    \/ Parse
    \/ StartBatch
    \/ \E i \in 1..Len(tasks) : Acquire(i)
    \/ \E i \in 1..Len(tasks), resp \in Responses : HeadResponse(i, resp)
    \/ \E i \in 1..Len(tasks), resp \in Responses : GetResponse(i, resp)
    \/ BatchDone
    \/ IdentifyBroken
    \/ Publish

Spec == Init /\ [][NextInRun]_vars

\* the documents parsed and indexed
NextParse ==
    \/ ParseDocs
    \/ Parse

SpecParse == InitDocs /\ [][NextParse]_vars

\* ------------------------------------------------- the limit as configured
InitLimit ==
    /\ limit \in 0..MAX_CONCURRENT_HTTP
    /\ GITHUB_TOKEN = FALSE
    /\ previous = NoSnapshot
    /\ playlist = NoPlaylist
    /\ docs = <<>>
    /\ streams \in {s \in StreamLists : Canonical(s, 0)}
    /\ run = 1
    /\ pc = "fetch"
    /\ candidate_streams = <<>>
    /\ replacement_index = EmptyIndex
    /\ validated = <<>>
    /\ global_validated = {}
    /\ broken = <<>>
    /\ replacement_tasks = <<>>
    /\ pending = <<>>
    /\ tasks = <<>>
    /\ sem = 0
    /\ resolved = {}
    /\ passed = {}
    /\ failed = {}
    /\ healed = EmptyIndex
    /\ published = NoSnapshot

\* Step 3: fetch_urls_batch over the raw sources. Every fetch_one enters
\* `async with sem` on a semaphore of MAX_CONCURRENT_HTTP slots before its request,
\* and gather returns when all of them have returned: with no slot none does
Fetch ==
    /\ pc = "fetch"
    /\ limit > 0
    /\ pc' = "parse"
    /\ UNCHANGED <<limit, GITHUB_TOKEN, previous, playlist, docs, streams, run,
                   candidate_streams, replacement_index, validated, global_validated,
                   broken, replacement_tasks, pending, tasks, sem, resolved, passed,
                   failed, healed, published>>

\* one run of the script from its fetch step on
NextLimit ==
    \/ Fetch
    \/ Parse
    \/ StartBatch
    \/ \E i \in 1..Len(tasks) : Acquire(i)
    \/ \E i \in 1..Len(tasks), resp \in Responses : HeadResponse(i, resp)
    \/ \E i \in 1..Len(tasks), resp \in Responses : GetResponse(i, resp)
    \/ BatchDone
    \/ IdentifyBroken
    \/ Publish

\* the event loop runs a coroutine that can run, and every request ends in a
\* response or in the timeout of VALIDATE_TIMEOUT seconds: a step that can be
\* taken is taken
SpecLive == InitLimit /\ [][NextLimit]_vars /\ WF_vars(NextLimit)

\* ------------------------------------------------------- step 8, by steps
InitSink ==
    /\ limit = MAX_CONCURRENT_HTTP
    /\ GITHUB_TOKEN \in BOOLEAN
    /\ published \in PreviousSnapshots
    /\ previous = published
    /\ playlist = (IF published = NoSnapshot THEN NoPlaylist
                   ELSE m3u_content(published.entries))
    /\ docs = <<>>
    /\ streams \in {s \in StreamLists : Canonical(s, 0)}
    /\ run = 1
    /\ pc = "parse"
    /\ candidate_streams = <<>>
    /\ replacement_index = EmptyIndex
    /\ validated = <<>>
    /\ global_validated = {}
    /\ broken = <<>>
    /\ replacement_tasks = <<>>
    /\ pending = <<>>
    /\ tasks = <<>>
    /\ sem = 0
    /\ resolved = {}
    /\ passed = {}
    /\ failed = {}
    /\ healed = EmptyIndex

ReadyToPublish == pc = "heal" /\ tasks = <<>> /\ pending = <<>>

\* open("playlist.m3u", "w")
OpenPlaylist ==
    /\ ReadyToPublish
    /\ ~GITHUB_TOKEN
    /\ playlist' = EmptyPlaylist
    /\ pc' = "playlist_open"
    /\ UNCHANGED <<limit, GITHUB_TOKEN, previous, docs, streams, run, candidate_streams,
                   replacement_index, validated, global_validated, broken,
                   replacement_tasks, pending, tasks, sem, resolved, passed, failed,
                   healed, published>>

\* f.write(m3u_content) and the end of the with block
WritePlaylist ==
    /\ pc = "playlist_open"
    /\ playlist' = m3u_content(validated)
    /\ pc' = "playlist_written"
    /\ UNCHANGED <<limit, GITHUB_TOKEN, previous, docs, streams, run, candidate_streams,
                   replacement_index, validated, global_validated, broken,
                   replacement_tasks, pending, tasks, sem, resolved, passed, failed,
                   healed, published>>

\* open("vengatesh_iptv_backup.json", "w")
OpenBackup ==
    /\ pc = "playlist_written"
    /\ published' = EmptyBackup
    /\ pc' = "backup_open"
    /\ UNCHANGED <<limit, GITHUB_TOKEN, previous, playlist, docs, streams, run,
                   candidate_streams, replacement_index, validated, global_validated,
                   broken, replacement_tasks, pending, tasks, sem, resolved, passed,
                   failed, healed>>

\* f.write(json_str), the end of the with block and the return
WriteBackup ==
    /\ pc = "backup_open"
    /\ published' = json_backup(validated)
    /\ pc' = "done"
    /\ UNCHANGED <<limit, GITHUB_TOKEN, previous, playlist, docs, streams, run,
                   candidate_streams, replacement_index, validated, global_validated,
                   broken, replacement_tasks, pending, tasks, sem, resolved, passed,
                   failed, healed>>

\* GET /gists: gist_id is set when the answer is 200 and lists the gist of an
\* earlier run
GistLookup(status) ==
    /\ ReadyToPublish
    /\ GITHUB_TOKEN
    /\ status # NoResponse
    /\ pc' = (IF status = 200 /\ published # NoSnapshot THEN "gist_patch" ELSE "gist_post")
    /\ UNCHANGED <<limit, GITHUB_TOKEN, previous, playlist, docs, streams, run,
                   candidate_streams, replacement_index, validated, global_validated,
                   broken, replacement_tasks, pending, tasks, sem, resolved, passed,
                   failed, healed, published>>

\* PATCH /gists/{gist_id}: the gist takes both files when the answer is 200; any
\* other status, or an exception (no response), is printed and main returns
GistPatch(resp) ==
    /\ pc = "gist_patch"
    /\ published' = (IF resp = 200 THEN json_backup(validated) ELSE published)
    /\ playlist' = (IF resp = 200 THEN m3u_content(validated) ELSE playlist)
    /\ pc' = "done"
    /\ UNCHANGED <<limit, GITHUB_TOKEN, previous, docs, streams, run, candidate_streams,
                   replacement_index, validated, global_validated, broken,
                   replacement_tasks, pending, tasks, sem, resolved, passed, failed,
                   healed>>

\* POST /gists: a gist is created with both files when the answer is 201; any
\* other status, or an exception (no response), is printed and main returns
GistPost(resp) ==
    /\ pc = "gist_post"
    /\ published' = (IF resp = 201 THEN json_backup(validated) ELSE published)
    /\ playlist' = (IF resp = 201 THEN m3u_content(validated) ELSE playlist)
    /\ pc' = "done"
    /\ UNCHANGED <<limit, GITHUB_TOKEN, previous, docs, streams, run, candidate_streams,
                   replacement_index, validated, global_validated, broken,
                   replacement_tasks, pending, tasks, sem, resolved, passed, failed,
                   healed>>

\* the process dies (killed, power lost, an exception main does not catch):
\* its memory is gone, the files and the gist stay as they are
Crash ==
    /\ pc \notin {"done", "crashed"}
    /\ pc' = "crashed"
    /\ streams' = <<>>
    /\ candidate_streams' = <<>>
    /\ replacement_index' = EmptyIndex
    /\ validated' = <<>>
    /\ global_validated' = {}
    /\ broken' = <<>>
    /\ replacement_tasks' = <<>>
    /\ pending' = <<>>
    /\ tasks' = <<>>
    /\ sem' = 0
    /\ resolved' = {}
    /\ passed' = {}
    /\ failed' = {}
    /\ healed' = EmptyIndex
    /\ UNCHANGED <<limit, GITHUB_TOKEN, previous, playlist, docs, run, published>>

\* one run of the script, its last step taken write by write, with crashes
NextSink ==
    \/ Parse
    \/ StartBatch
    \/ \E i \in 1..Len(tasks) : Acquire(i)
    \/ \E i \in 1..Len(tasks), resp \in Responses : HeadResponse(i, resp)
    \/ \E i \in 1..Len(tasks), resp \in Responses : GetResponse(i, resp)
    \/ BatchDone
    \/ IdentifyBroken
    \/ OpenPlaylist
    \/ WritePlaylist
    \/ OpenBackup
    \/ WriteBackup
    \/ \E status \in GistResponses : GistLookup(status)
    \/ \E resp \in GistResponses : GistPatch(resp)
    \/ \E resp \in GistResponses : GistPost(resp)
    \/ Crash

SpecSink == InitSink /\ [][NextSink]_vars

\* a sequence of runs, each publishing over the snapshot of the one before
Next ==
    \/ NextInRun
    \/ StartRun

SpecRuns == Init /\ [][Next]_vars

\* ------------------------------------------------------- derived notions
Started(t) == t.st \in {"head", "get", "done"}
InFlight == {i \in 1..Len(tasks) : tasks[i].st \in {"head", "get"}}
HealTask(i) == pc = "heal" /\ Started(tasks[i])
HealedUrls == UNION {healed[b] : b \in DOMAIN healed}
HealedFor(b) == IF b \in DOMAIN healed THEN healed[b] ELSE {}
\* the urls validated by the validation wave
Confirmed == Keys(validated) \ HealedUrls
PublishStep == pc = "heal" /\ pc' = "done"

\* ------------------------------------------------------------------ C1
\* C1: the total of the snapshot a run publishes is greater than or equal to
\* the total of the snapshot published by the previous run.
C1_MonotonicTotal == [][published'.total >= published.total]_vars

\* ------------------------------------------------------------------ C2
\* C2: an entry of the previous snapshot whose endpoint is broken in this run
\* and for which healing added no replacement is still present in the snapshot
\* this run publishes.
C2_CarryForward ==
    [][PublishStep =>
         \A u \in Keys(published.entries) :
            (u \in Keys(broken) /\ HealedFor(u) = {})
               => u \in Keys(published'.entries)]_vars

\* ------------------------------------------------- healing, as specified
RECURSIVE UrlsWithout(_, _)
UrlsWithout(c, excl) ==
    IF c = <<>> THEN <<>>
    ELSE (IF Head(c)[1] \in excl THEN <<>> ELSE <<Head(c)[1]>>) \o UrlsWithout(Tail(c), excl)

\* the alternates of broken url b: the entries of its identity other than b and
\* other than the confirmed urls, in insertion order
Alternates(b) ==
    UrlsWithout(IndexGet(replacement_index, IdentityOf(Lookup(candidate_streams, b))),
                Confirmed \cup {b})
FirstAlternates(b) ==
    SubSeq(Alternates(b), 1, Min(MAX_REPLACEMENT_CANDIDATES, Len(Alternates(b))))
Range(q) == {q[k] : k \in 1..Len(q)}

\* a task that probes another url than the broken one it was made for
Substitute(t) == t.url # t.for

\* position in replacement_tasks of task i of the batch, and its rank among the
\* substitute tasks of the same broken url
Offset == Len(replacement_tasks) - Len(pending) - Len(tasks)
RankFor(g) ==
    Cardinality({j \in 1..g : /\ replacement_tasks[j].for = replacement_tasks[g].for
                               /\ Substitute(replacement_tasks[j])})
ProbedFor(b) ==
    {replacement_tasks[j].url :
        j \in {k \in 1..Len(replacement_tasks) : replacement_tasks[k].for = b}}

\* ------------------------------------------------------------------ C3
\* C3: the probes of other urls made for a broken url are those of its
\* alternates, in insertion order, one after another (the k-th such probe is of
\* its k-th alternate, and no two of them are in flight together).
C3_HealingOrder ==
    \A i \in 1..Len(tasks) :
        (HealTask(i) /\ Substitute(tasks[i])) =>
            LET b == tasks[i].for
                k == RankFor(Offset + i)
            IN  /\ k <= Len(Alternates(b))
                /\ tasks[i].url = Alternates(b)[k]
                /\ i \in InFlight =>
                      \A j \in InFlight \ {i} :
                          Substitute(tasks[j]) => tasks[j].for # b

\* ------------------------------------------------------------------ C4
\* C4: every probe made for a broken url is of one of the first
\* MAX_REPLACEMENT_CANDIDATES alternates of that url, and when the run ends
\* without a substitute for it each of these alternates was probed for it.
C4_HealingCap ==
    /\ \A i \in 1..Len(tasks) :
          HealTask(i) => tasks[i].url \in Range(FirstAlternates(tasks[i].for))
    /\ pc = "done" =>
          \A b \in Keys(broken) :
              HealedFor(b) = {} => Range(FirstAlternates(b)) \subseteq ProbedFor(b)

\* ------------------------------------------------------------------ C5
\* C5: at most one substitute is added on behalf of a broken url.
C5_FirstSuccessWins ==
    \A b \in DOMAIN healed : Cardinality(healed[b] \ {b}) <= 1

\* ------------------------------------------------------------------ C6
\* C6: no probe of the healing phase made for a broken url is of that url.
C6_NoSelfProbe ==
    \A i \in 1..Len(tasks) : HealTask(i) => tasks[i].url # tasks[i].for

\* ------------------------------------------------------------------ C7
\* C7: no probe of a substitute is in flight of a url that is in the confirmed
\* set of the run.
C7_NoReprobeOfConfirmed ==
    \A i \in InFlight : Substitute(tasks[i]) => tasks[i].url \notin global_validated

\* ------------------------------------------------------------------ C8
\* C8: in both phases the number of probes in flight is at most
\* MAX_CONCURRENT_HTTP.
C8_ConcurrencyCeiling ==
    /\ Cardinality(InFlight) <= MAX_CONCURRENT_HTTP
    /\ sem >= 0

\* a batch with the ceiling reached and a task waiting for a slot
C8_Witness ==
    /\ Cardinality(InFlight) = MAX_CONCURRENT_HTTP
    /\ \E i \in 1..Len(tasks) : tasks[i].st = "wait"

\* ------------------------------------------------------------------ C9
\* C9: when the replacement step is entered every candidate is resolved, and
\* the confirmed and the broken urls are disjoint and make up the candidates.
C9_ValidationBarrier ==
    pc = "heal" =>
        /\ resolved = Keys(candidate_streams)
        /\ Confirmed \cap Keys(broken) = {}
        /\ Confirmed \cup Keys(broken) = Keys(candidate_streams)

\* a healing probe in flight after a validation of several batches that
\* confirmed some candidates and not others
C9_Witness ==
    /\ \E i \in InFlight : HealTask(i)
    /\ Len(candidate_streams) > VALIDATE_BATCH
    /\ Confirmed # {}

\* ----------------------------------------------------------------- C10
\* C10: a HEAD attempt that does not yield a qualifying status is followed by
\* a GET attempt: a probe ends on its HEAD attempt only as reachable.
C10_FallbackOnAnyFailure ==
    [][\A i \in 1..Len(tasks) :
          (Len(tasks') = Len(tasks) /\ tasks[i].st = "head" /\ tasks'[i].st = "done")
             => tasks'[i].ok]_vars

\* ----------------------------------------------------------------- C11
\* C11: a probe whose two attempts raised returns False; when its batch is
\* merged its url is not validated, the urls of the tasks of the batch that
\* returned True are, and when the broken list is made every url whose
\* validation probe failed is in it.
BatchDoneStep == tasks # <<>> /\ tasks' = <<>>
C11_FailuresAbsorbed ==
    [][/\ BatchDoneStep =>
            \A i \in 1..Len(tasks) :
                /\ tasks[i].raised = 2 => ~tasks[i].ok
                /\ (tasks[i].raised = 2 /\ pc = "validate")
                       => tasks[i].url \notin Keys(validated')
                /\ tasks[i].ok => tasks[i].url \in Keys(validated')
       /\ (pc = "validate" /\ pc' = "heal") => failed \subseteq Keys(broken')]_vars

\* a batch in which a probe raised twice before another one returned True
C11_Witness ==
    \E i, j \in 1..Len(tasks) :
        /\ i < j
        /\ tasks[i].st = "done" /\ tasks[i].raised = 2
        /\ tasks[j].st = "done" /\ tasks[j].ok

\* ----------------------------------------------------------------- C12
\* C12: every url of the snapshot a run publishes is one of which a probe of
\* that run returned True.
C12_PublishedProbed ==
    pc = "done" => Keys(published.entries) \subseteq passed

\* a published snapshot with a url of the validation wave and a healed one,
\* of a run in which a probe failed
C12_Witness ==
    /\ pc = "done"
    /\ Keys(published.entries) \cap Confirmed # {}
    /\ Keys(published.entries) \cap HealedUrls # {}
    /\ failed # {}

\* ----------------------------------------------------------------- C13
\* C13: no url appears twice in the entries of a published snapshot, and the
\* total is the number of its urls.
C13_NoDuplicatePublish ==
    pc = "done" =>
        /\ \A i, j \in 1..Len(published.entries) :
              i # j => published.entries[i][1] # published.entries[j][1]
        /\ published.total = Cardinality(Keys(published.entries))

\* a published url that the replacement step probed in two batches
C13_Witness ==
    /\ pc = "done"
    /\ \E j, k \in 1..Len(replacement_tasks) :
          /\ j + REPLACEMENT_BATCH <= k
          /\ replacement_tasks[j].url = replacement_tasks[k].url
          /\ replacement_tasks[j].url \in HealedUrls
          /\ replacement_tasks[j].url \in Keys(published.entries)

\* ----------------------------------------------------------------- C14
\* doc1: NewsX at U1, SportY at U2; doc2: NewsX at U3; every probe of U1
\* fails and every probe of U2 and of U3 succeeds
ScenarioStreams == <<<<1, "i_NewsX">>, <<2, "i_SportY">>, <<3, "i_NewsX">>>>
ScenarioRun ==
    /\ streams = ScenarioStreams
    /\ pc = "done"
    /\ passed = {2, 3}
    /\ failed = {1}

\* C14 as stated: the scenario ends with confirmed = {U2}, broken = {U1},
\* healed = {U3} and a snapshot of U2 and U3, total 2.
C14_ScenarioAsStated ==
    ScenarioRun =>
        /\ Confirmed = {2}
        /\ Keys(broken) = {1}
        /\ HealedUrls = {3}
        /\ Keys(published.entries) = {2, 3}
        /\ published.total = 2

\* C14 amended: the scenario ends with confirmed = {U2, U3}, broken = {U1},
\* nothing healed and a snapshot of U2 and U3, total 2, in the first run and in
\* a run that follows another one.
C14_Scenario ==
    ScenarioRun =>
        /\ Confirmed = {2, 3}
        /\ Keys(broken) = {1}
        /\ HealedUrls = {}
        /\ Keys(published.entries) = {2, 3}
        /\ published.total = 2

\* the scenario in a run that follows another one
C14_Witness == ScenarioRun /\ run = 2

\* ------------------------------------------------- parsing, as specified
DocRecords(d) == ParseLines(docs[d], 1)
UrlsOf(recs) == {recs[j][1] : j \in 1..Len(recs)}
FirstPos(recs, u) == CHOOSE j \in 1..Len(recs) :
                        recs[j][1] = u /\ \A k \in 1..(j - 1) : recs[k][1] # u
FirstDoc(u) == CHOOSE d \in 1..Len(docs) :
                  u \in UrlsOf(DocRecords(d)) /\ \A e \in 1..(d - 1) : u \notin UrlsOf(DocRecords(e))
HasExtinf(doc) == \E i \in 1..Len(doc) : StartsWithExtinf(doc[i])
Accepted(l) == StartsWithScheme(l) /\ ~ContainsM3u(l)

\* the records of the two-line motifs of a document from line i on: one for each
\* #EXTINF line that an accepted endpoint line follows
RECURSIVE Motifs(_, _)
Motifs(doc, i) ==
    IF i >= Len(doc) THEN <<>>
    ELSE (IF StartsWithExtinf(doc[i]) /\ Accepted(doc[i + 1])
          THEN <<<<doc[i + 1].url, Strip(doc[i].text)>>>> ELSE <<>>)
         \o Motifs(doc, i + 1)
RECURSIVE MotifsOfAll(_)
MotifsOfAll(ds) == IF ds = <<>> THEN <<>> ELSE Motifs(Head(ds), 1) \o MotifsOfAll(Tail(ds))

\* ----------------------------------------------------------------- C15
\* C15: the record mapping holds each parsed url once, and with the metadata
\* of its first occurrence: that of the first document that has it, at its first
\* line there.
C15_FirstSeenWins ==
    pc = "validate" =>
        /\ Cardinality(Keys(candidate_streams)) = Len(candidate_streams)
        /\ Keys(candidate_streams) = UNION {UrlsOf(DocRecords(d)) : d \in 1..Len(docs)}
        /\ \A i \in 1..Len(candidate_streams) :
              LET u == candidate_streams[i][1]
                  recs == DocRecords(FirstDoc(u))
              IN  candidate_streams[i][2] = recs[FirstPos(recs, u)][2]

\* a url that both documents hold, under different metadata, indexed
C15_Witness ==
    /\ pc = "validate"
    /\ \E u \in Keys(candidate_streams) :
          /\ u \in UrlsOf(DocRecords(1)) /\ u \in UrlsOf(DocRecords(2))
          /\ DocRecords(1)[FirstPos(DocRecords(1), u)][2]
                # DocRecords(2)[FirstPos(DocRecords(2), u)][2]

\* ----------------------------------------------------------------- C16
\* C16: no two records of the list of an identity in the index share a url.
C16_IndexUnique ==
    \A k \in DOMAIN replacement_index :
        \A i, j \in 1..Len(replacement_index[k]) :
            i # j => replacement_index[k][i][1] # replacement_index[k][j][1]

\* an index built from a url repeated under its identity and under another one
C16_Witness ==
    /\ pc = "validate"
    /\ \E i, j, k \in 1..Len(streams) :
          /\ i < j /\ i < k
          /\ streams[i][1] = streams[j][1] /\ streams[i][1] = streams[k][1]
          /\ IdentityOf(streams[i][2]) = IdentityOf(streams[j][2])
          /\ IdentityOf(streams[i][2]) # IdentityOf(streams[k][2])

\* ----------------------------------------------------------------- C17
\* C17: the parser yields the record of every two-line motif of every
\* document (an #EXTINF line immediately followed by an accepted endpoint line)
\* and no other record.
C17_TwoLineMotifs ==
    pc # "docs" => streams = MotifsOfAll(docs)

\* ----------------------------------------------------------------- C18
\* C18: a document without an #EXTINF line yields no record, and the records
\* of a run are those of its other documents.
C18_MalformedTolerated ==
    /\ \A d \in 1..Len(docs) : ~HasExtinf(docs[d]) => DocRecords(d) = <<>>
    /\ pc \notin {"docs"} => streams = ParseResults(Chunks(SelectSeq(docs, HasExtinf)))

\* a document of stream urls without an #EXTINF line, parsed beside a document
\* that yields records
C18_Witness ==
    /\ pc = "parse"
    /\ streams # <<>>
    /\ \E d \in 1..Len(docs) :
          /\ ~HasExtinf(docs[d])
          /\ \E i \in 2..Len(docs[d]) : Accepted(docs[d][i])

\* ----------------------------------------------------------------- C19
\* C19: after a crash at any step of a run, the persisted snapshot is the one
\* that existed when the run started.
C19_CrashSafe ==
    pc = "crashed" => published = previous

\* ----------------------------------------------------------------- C20
\* C20: a run that ends holds its computed snapshot in its sink, also when the
\* remote update or creation failed: the validated entries are not discarded.
C20_ResultsRetained ==
    pc = "done" =>
        \A i \in 1..Len(validated) :
            \E j \in 1..Len(published.entries) : published.entries[j] = validated[i]

\* ----------------------------------------------------------------- C21
\* C21: a run whose concurrency limit is configured to zero ends with a fatal
\* error: it does not stay blocked forever waiting for a slot.
C21_FailFastOnZero ==
    (limit = 0) ~> (pc = "fatal")

\* ----------------------------------------------------------------- C27
\* C27: with a concurrency limit of one or more and every request ending in a
\* response or a timeout, a run reaches the end of its publish step with every
\* candidate confirmed or broken and no probe left waiting or in flight.
C27_RunTerminates ==
    (limit >= 1) ~>
        (/\ pc = "done"
         /\ Keys(candidate_streams) = Confirmed \cup Keys(broken)
         /\ resolved = Keys(candidate_streams)
         /\ tasks = <<>>
         /\ pending = <<>>)

\* a run with one slot ended, after batches wider than the limit in both steps
C27_Witness ==
    /\ pc = "done"
    /\ limit = 1
    /\ Len(candidate_streams) > VALIDATE_BATCH
    /\ Len(replacement_tasks) > 1

\* ----------------------------------------------------------------- C22
\* a step inside a batch: the tasks are those of before
SameBatch == tasks # <<>> /\ Len(tasks') = Len(tasks)

\* C22: a probe makes one HEAD attempt, then one GET attempt at most, and is
\* terminal after the answer or the failure of the GET: a probe that is at its
\* GET attempt and changes is done, and a probe that is done does not change.
C22_AtMostTwoRequests ==
    [][SameBatch =>
          \A i \in 1..Len(tasks) :
              /\ tasks[i].st = "wait" => tasks'[i].st \in {"wait", "head"}
              /\ tasks[i].st = "head" => tasks'[i].st \in {"head", "get", "done"}
              /\ (tasks[i].st = "get" /\ tasks'[i] # tasks[i]) => tasks'[i].st = "done"
              /\ tasks[i].st = "done" => tasks'[i] = tasks[i]]_vars

\* a probe that ended after its HEAD and its GET both raised
C22_Witness ==
    \E i \in 1..Len(tasks) : tasks[i].st = "done" /\ tasks[i].raised = 2

\* ----------------------------------------------------------------- C23
Waiting == {i \in 1..Len(tasks) : tasks[i].st = "wait"}
\* the candidates no probe was started for
NotYetProbed == {tasks[i].url : i \in Waiting} \cup {pending[k].url : k \in 1..Len(pending)}
CanStart == \E i \in Waiting : CanAcquire(i)

\* C23: in the validation wave, while a probe is in flight and fewer probes
\* than the limit are, a candidate not yet probed can be started.
C23_FreeSlotsUsable ==
    (/\ pc = "validate"
     /\ InFlight # {}
     /\ Cardinality(InFlight) < limit
     /\ NotYetProbed # {}) => CanStart

\* ----------------------------------------------------------------- C24
\* C24: between the batches and at the end of each step, the validated urls
\* are the urls a probe of the run resolved reachable, none lost and none
\* added, in whatever order the probes of a batch completed; in the validation
\* wave they are in the order of the candidates.
RECURSIVE InOrder(_, _)
InOrder(val, cand) ==
    IF val = <<>> THEN TRUE
    ELSE IF cand = <<>> THEN FALSE
    ELSE IF Head(val) = Head(cand) THEN InOrder(Tail(val), Tail(cand))
    ELSE InOrder(val, Tail(cand))

C24_NoLostUpdates ==
    (pc \in {"validate", "heal", "done"} /\ tasks = <<>>) =>
        /\ Keys(validated) = passed
        /\ Cardinality(passed) = Len(validated)
        /\ pc = "validate" => InOrder(validated, candidate_streams)

\* the replacement step entered with the two probes of the first batch and a
\* probe of a later batch all resolved reachable
C24_Witness ==
    /\ pc = "heal"
    /\ Len(candidate_streams) > VALIDATE_BATCH
    /\ \A i \in 1..Len(candidate_streams) : candidate_streams[i][1] \in passed

\* ----------------------------------------------------------------- C25
\* C25: from the end of the index build to the end of the run no step changes
\* the index: it is the mapping bulk_parse_contents_optimized returned, each
\* identity with its records in their order.
C25_IndexUnchanged ==
    [][pc # "parse" =>
          /\ replacement_index' = replacement_index
          /\ pc' = "done" =>
                 replacement_index' = bulk_parse_contents_optimized(streams).replacement_index]_vars

\* the end of a run that had a confirmed url, a broken one that stayed broken
\* and a healed one, over an index with an identity of several records
C25_Witness ==
    /\ pc = "done"
    /\ Confirmed # {}
    /\ HealedUrls # {}
    /\ Keys(broken) \ Keys(validated) # {}
    /\ \E n \in DOMAIN replacement_index : Len(replacement_index[n]) > 1

\* ----------------------------------------------------------------- C26
\* C26: after the publish step the playlist is the header line, then for each
\* validated entry, in the order of validated, its metadata line and its url
\* line; the snapshot document has the same urls, one entry each, in that order;
\* and its total is the number of its entries.
C26_ArtifactsAgree ==
    pc = "done" =>
        /\ Len(playlist) = 1 + 2 * Len(validated)
        /\ playlist[1] = OtherLine
        /\ \A k \in 1..Len(validated) :
              /\ playlist[2 * k] = ExtinfLine(validated[k][2])
              /\ playlist[2 * k + 1] = StreamLine(validated[k][1])
              /\ published.entries[k] = validated[k]
        /\ Len(published.entries) = Len(validated)
        /\ Cardinality(Keys(published.entries)) = Len(published.entries)
        /\ published.total = Len(published.entries)

\* artifacts of several entries, a healed one after the confirmed ones
C26_Witness ==
    /\ pc = "done"
    /\ Len(published.entries) > 1
    /\ published.entries[Len(published.entries)][1] \in HealedUrls

\* ----------------------------------------------------------------- C28
\* the urls that answered a probe of the run as reachable and another as not
Changed == passed \cap failed

\* C28: a url added by the replacement step was probed unreachable in the
\* validation wave of the run and reachable in its replacement probe; in a run
\* where no url answered two probes differently the replacement step adds
\* nothing and the published urls are those confirmed by the validation wave.
C28_HealingNeedsChange ==
    /\ HealedUrls \subseteq Changed
    /\ (pc = "done" /\ Changed = {}) =>
           /\ HealedUrls = {}
           /\ Keys(published.entries) = passed
           /\ Keys(published.entries) = Keys(candidate_streams) \ Keys(broken)

\* the end of a run of stable answers in which replacement candidates were
\* probed, beside confirmed urls
C28_Witness ==
    /\ pc = "done"
    /\ Changed = {}
    /\ replacement_tasks # <<>>
    /\ passed # {}

====
